---- MODULE Spec2Model ----
(***************************************************************************)
(* A model of sso_report.py: main() loads the identity-store directory     *)
(* (users, groups, group memberships) into two maps, then walks            *)
(* accounts -> permission sets -> account assignments and writes one CSV   *)
(* row per resolved user.  The AWS services are the environment: every     *)
(* pull from a paginated listing either yields the next record, ends the   *)
(* listing, or raises.  One action is one pull together with everything    *)
(* main() does with the record before the next pull.                       *)
(*                                                                         *)
(* Text values (names, descriptions) are naturals ordered as Python orders *)
(* the strings they stand for; Empty stands for the empty string "".       *)
(***************************************************************************)
EXTENDS Naturals, Sequences, FiniteSets

\* ---------------------------------------------------------------- bounds
\* records the identity-store listings (users, groups, memberships) may yield
\* in one run of the general profile
MaxDirectoryRecords == 5
\* records the accounts, permission-set and assignment listings may yield in
\* one run of the general profile
MaxReportRecords == 4

\* functools.lru_cache used without arguments: maxsize defaults to 128
LruMaxSize == 128

Empty == 0
UserIds == {1, 2}
Usernames == {1, 2}
DisplayNames == {3}
GroupIds == {1, 2}
GroupNames == {1}
GroupDescriptions == {2}
AccountNames == {1}
PermissionSetArns == {1, 2}
PermissionSetNames == {1}
PermissionSetDescriptions == {2}
PrincipalTypes == {"USER", "GROUP", "OTHER"}
\* the "manyPermissionSets" profile: one more permission set than the cache holds
ManyArns == 1..(LruMaxSize + 1)
ManyAccounts == 2

VARIABLES
  profile,      \* which organisation the run is pointed at (see Init)
  pc,           \* where main() stands
  err,          \* the exception that ended the run, "none" while it runs
  idc,          \* get_identity_center's lru_cache: <<>> or <<result>>
  instCalls,    \* number of list_instances API calls made
  idcUsed,      \* the (arn, store id) pairs handed to API calls so far
  calls,        \* number of pulls made from each paginated listing
  nDirRecords,  \* records yielded by the identity-store listings so far
  nRepRecords,  \* records yielded by the report's listings so far
  user_map,     \* main: user_map
  group_map,    \* main: group_map
  group,        \* the group record whose memberships are being listed
  members,      \* main: members (before the sort)
  listed,       \* per group id, the user ids its membership listing yielded
  drained,      \* the identity-store listings that have been read to their end
  header,       \* the output file is open and the header row is written
  rows,         \* the data rows of sso_report.csv, in file order
  rowSrc,       \* per data row, the ordinal of the assignment it came from
  asgLog,       \* the assignments yielded so far, in order
  account,      \* <<account_id, account_name>> of the current account
  nAccounts,    \* accounts yielded so far
  psYielded,    \* permission sets yielded for the current account
  permission_set, \* main: permission_set
  perm_info,    \* main: perm_info
  descCache,    \* describe_permission_set's lru_cache, least recent first
  described     \* the arns the describe_permission_set API was called with

vars == <<profile, pc, err, idc, instCalls, idcUsed, calls, nDirRecords, nRepRecords,
          user_map,
          group_map, group, members, listed, drained, header, rows, rowSrc, asgLog,
          account, nAccounts, psYielded, permission_set, perm_info, descCache,
          described>>

dirVars == <<user_map, group_map, group, members, listed, drained>>
outVars == <<header, rows, rowSrc, asgLog>>
walkVars == <<account, nAccounts, psYielded, permission_set, perm_info>>
cacheVars == <<descCache, described>>

Listings == {"list_users", "list_groups", "list_group_memberships",
             "list_accounts", "list_permission_sets", "list_account_assignments"}

NoGroup == [GroupId |-> 0, DisplayName |-> Empty]
NoAccount == <<0, Empty>>
NoPermInfo == [Name |-> Empty]

Init ==
  /\ profile \in {"general", "manyPermissionSets"}
  /\ pc = "users"
  /\ err = "none"
  /\ idc = <<>>
  /\ instCalls = 0
  /\ idcUsed = {}
  /\ calls = [l \in Listings |-> 0]
  /\ nDirRecords = 0
  /\ nRepRecords = 0
  /\ user_map = <<>>
  /\ group_map = <<>>
  /\ group = NoGroup
  /\ members = <<>>
  /\ listed = <<>>
  /\ drained = {}
  /\ header = FALSE
  /\ rows = <<>>
  /\ rowSrc = <<>>
  /\ asgLog = <<>>
  /\ account = NoAccount
  /\ nAccounts = 0
  /\ psYielded = <<>>
  /\ permission_set = 0
  /\ perm_info = NoPermInfo
  /\ descCache = <<>>
  /\ described = <<>>

\* ------------------------------------------------------- pure helpers

\* dict[key] = value
Put(map, key, value) ==
  [k \in DOMAIN map \cup {key} |-> IF k = key THEN value ELSE map[k]]

\* Python's tuple comparison on (username, displayname)
TupleLeq(a, b) == a[1] < b[1] \/ (a[1] = b[1] /\ a[2] <= b[2])

RECURSIVE InsertSorted(_, _)
InsertSorted(s, x) ==
  IF s = <<>> THEN <<x>>
  ELSE IF TupleLeq(s[Len(s)], x) THEN Append(s, x)
  ELSE Append(InsertSorted(SubSeq(s, 1, Len(s) - 1), x), s[Len(s)])

\* members left in the order the membership listing yielded them
SortMembersOmitted(s) == s

RECURSIVE SortMembers(_)
\* list.sort() on the member tuples
SortMembers(s) ==
  IF s = <<>> THEN <<>>
  ELSE InsertSorted(SortMembers(SubSeq(s, 1, Len(s) - 1)), s[Len(s)])

\* dict.get("Description", "")
GetDescription(rec) ==
  IF "Description" \in DOMAIN rec THEN rec.Description ELSE Empty

Range(s) == {s[i] : i \in DOMAIN s}

Pull(listing) == [calls EXCEPT ![listing] = @ + 1]

\* a listing of the directory, or of the report, may yield one more record
MayYieldDir == profile = "general" /\ nDirRecords < MaxDirectoryRecords
MayYieldRep == profile = "general" /\ nRepRecords < MaxReportRecords
nRecords == <<nDirRecords, nRepRecords>>
\* a call may raise (the manyPermissionSets profile is a run without failures)
MayRaise == profile = "general"

\* ------------------------------------------------ get_identity_center

\* What list_instances answers: the instance's (InstanceArn, IdentityStoreId).
\* The values are opaque; the answer of the k-th call is named k, so two calls
\* need not agree.
ListInstances == {<<instCalls + 1, instCalls + 1>>}

\* get_identity_center without its lru_cache: every call asks list_instances
get_identity_center_uncached(pair) ==
  /\ pair \in ListInstances
  /\ idc' = <<pair>>
  /\ instCalls' = instCalls + 1

\* get_identity_center() returning `pair` to its caller: the cached result if
\* there is one, else what list_instances answers, which is then cached.
get_identity_center(pair) ==
  IF idc # <<>>
  THEN /\ pair = idc[1]
       /\ UNCHANGED <<idc, instCalls>>
  ELSE /\ pair \in ListInstances
       /\ idc' = <<pair>>
       /\ instCalls' = instCalls + 1

\* get_identity_center() raising: only a real call can raise.  list_instances
\* fails ("APIError") or returns no instance and instances[0] raises
\* ("IndexError").  Nothing is cached.
IdentityCenterRaises(kind) ==
  /\ idc = <<>>
  /\ kind \in {"APIError", "IndexError"}
  /\ instCalls' = instCalls + 1
  /\ pc' = "error"
  /\ err' = kind
  /\ UNCHANGED <<profile, idc, idcUsed, calls, nRecords, dirVars, outVars, walkVars, cacheVars>>

\* a listing call (or the describe call) raising an API error
Raise(kind) ==
  /\ pc' = "error"
  /\ err' = kind

\* the values a call of get_identity_center() can return in this state
IdcAnswers == ListInstances \cup Range(idc)

\* a generator body that starts with get_identity_center() and passes the
\* result to its paginator
UseIdentityCenter ==
  \E pair \in IdcAnswers :
    /\ get_identity_center(pair)
    /\ idcUsed' = idcUsed \cup {pair}

\* ----------------------------------------------------- directory load

\* Users are listed in ascending id order (user_map does not depend on the
\* order); usernames are unique in an identity store.
UserChoices ==
  {u \in UserIds : \A k \in DOMAIN user_map : k < u}

\* for user in generate_users(): user_map[user_id] = (username, displayname)
UsersYield ==
  /\ pc = "users"
  /\ MayYieldDir
  /\ UseIdentityCenter
  /\ calls' = Pull("list_users")
  /\ nDirRecords' = nDirRecords + 1
  /\ UNCHANGED nRepRecords
  /\ \E user_id \in UserChoices,
        username \in Usernames \ {user_map[k][1] : k \in DOMAIN user_map},
        user_displayname \in DisplayNames :
       user_map' = Put(user_map, user_id, <<username, user_displayname>>)
  /\ UNCHANGED <<profile, pc, err, group_map, group, members, listed, drained,
                 outVars, walkVars, cacheVars>>

UsersEnd ==
  /\ pc = "users"
  /\ UseIdentityCenter
  /\ calls' = Pull("list_users")
  /\ drained' = drained \cup {<<"list_users", 0>>}
  /\ pc' = "groups"
  /\ UNCHANGED <<profile, err, nRecords, user_map, group_map, group, members,
                 listed, outVars, walkVars, cacheVars>>

\* the first pull resolves the identity center, which may raise; any pull's
\* list_users page may raise
UsersRaise ==
  /\ pc = "users"
  /\ MayRaise
  /\ \/ \E kind \in {"APIError", "IndexError"} : IdentityCenterRaises(kind)
     \/ /\ UseIdentityCenter
        /\ calls' = Pull("list_users")
        /\ Raise("APIError")
        /\ UNCHANGED <<profile, nRecords, dirVars, outVars, walkVars, cacheVars>>

\* the group records list_groups can yield next: ascending ids, Description
\* optional
GroupChoices ==
  LET ids == {g \in GroupIds : \A k \in DOMAIN listed : k < g}
  IN  [GroupId : ids, DisplayName : GroupNames]
      \cup [GroupId : ids, DisplayName : GroupNames, Description : GroupDescriptions]

\* for group in generate_groups(): ... generate_group_memberships(group_id)
GroupsYield ==
  /\ pc = "groups"
  /\ MayYieldDir
  /\ UseIdentityCenter
  /\ calls' = Pull("list_groups")
  /\ nDirRecords' = nDirRecords + 1
  /\ UNCHANGED nRepRecords
  /\ \E g \in GroupChoices :
       /\ group' = g
       /\ listed' = Put(listed, g.GroupId, <<>>)
  /\ members' = <<>>
  /\ pc' = "members"
  /\ UNCHANGED <<profile, err, user_map, group_map, drained, outVars, walkVars,
                 cacheVars>>

GroupsEnd ==
  /\ pc = "groups"
  /\ UseIdentityCenter
  /\ calls' = Pull("list_groups")
  /\ drained' = drained \cup {<<"list_groups", 0>>}
  /\ pc' = "open"
  /\ UNCHANGED <<profile, err, nRecords, user_map, group_map, group, members,
                 listed, outVars, walkVars, cacheVars>>

GroupsRaise ==
  /\ pc = "groups"
  /\ MayRaise
  /\ UseIdentityCenter
  /\ calls' = Pull("list_groups")
  /\ Raise("APIError")
  /\ UNCHANGED <<profile, nRecords, dirVars, outVars, walkVars, cacheVars>>

\* user_map.get(user_id) with absent users dropped from the list
ResolveMemberSkipUnknown(user_id) ==
  /\ members' = IF user_id \in DOMAIN user_map
                THEN Append(members, user_map[user_id])
                ELSE members
  /\ UNCHANGED <<pc, err>>

\* user_map[user_id] inside the list comprehension: KeyError when absent
ResolveMember(user_id) ==
  IF user_id \in DOMAIN user_map
  THEN /\ members' = Append(members, user_map[user_id])
       /\ UNCHANGED <<pc, err>>
  ELSE /\ members' = members
       /\ Raise("KeyError")

\* one pull of generate_group_memberships(group_id); a group holds a user at
\* most once, so the listing yields distinct user ids
MembersYield ==
  /\ pc = "members"
  /\ MayYieldDir
  /\ UseIdentityCenter
  /\ calls' = Pull("list_group_memberships")
  /\ nDirRecords' = nDirRecords + 1
  /\ UNCHANGED nRepRecords
  /\ \E user_id \in UserIds \ Range(listed[group.GroupId]) :
       /\ listed' = [listed EXCEPT ![group.GroupId] = Append(@, user_id)]
       /\ ResolveMember(user_id)
  /\ UNCHANGED <<profile, user_map, group_map, group, drained, outVars, walkVars,
                 cacheVars>>

\* the listing ends: members.sort(); group_map[group_id] = (name, desc, members)
MembersEnd ==
  /\ pc = "members"
  /\ UseIdentityCenter
  /\ calls' = Pull("list_group_memberships")
  /\ group_map' = Put(group_map, group.GroupId,
                      <<group.DisplayName, GetDescription(group), SortMembers(members)>>)
  /\ drained' = drained \cup {<<"list_group_memberships", group.GroupId>>}
  /\ group' = NoGroup
  /\ members' = <<>>
  /\ pc' = "groups"
  /\ UNCHANGED <<profile, err, nRecords, user_map, listed, outVars, walkVars, cacheVars>>

MembersRaise ==
  /\ pc = "members"
  /\ MayRaise
  /\ UseIdentityCenter
  /\ calls' = Pull("list_group_memberships")
  /\ Raise("APIError")
  /\ UNCHANGED <<profile, nRecords, dirVars, outVars, walkVars, cacheVars>>

\* ------------------------------------------------------------ report

\* the file opened without writer.writeheader()
OpenFileNoHeader ==
  /\ pc = "open"
  /\ header' = FALSE
  /\ pc' = "accounts"
  /\ UNCHANGED <<profile, err, idc, instCalls, idcUsed, calls, nRecords, dirVars,
                 rows, rowSrc, asgLog, walkVars, cacheVars>>

\* the file opened once the users are loaded, before the groups are
OpenFileBeforeGroups ==
  /\ pc \in {"groups", "open"}
  /\ ~header
  /\ header' = TRUE
  /\ pc' = IF pc = "open" THEN "accounts" ELSE pc
  /\ UNCHANGED <<profile, err, idc, instCalls, idcUsed, calls, nRecords, dirVars,
                 rows, rowSrc, asgLog, walkVars, cacheVars>>

\* with open("./sso_report.csv", "w") ...: writer.writeheader()
OpenFile ==
  /\ pc = "open"
  /\ header' = TRUE
  /\ pc' = "accounts"
  /\ UNCHANGED <<profile, err, idc, instCalls, idcUsed, calls, nRecords, dirVars,
                 rows, rowSrc, asgLog, walkVars, cacheVars>>

\* for account_id, account_name in generate_accounts(): account ids are unique
\* and named in order of appearance.  generate_accounts() does not use the
\* identity center.
AccountChoices ==
  IF profile = "general"
  THEN IF nRepRecords < MaxReportRecords THEN {nAccounts + 1} \X AccountNames ELSE {}
  ELSE IF nAccounts < ManyAccounts THEN {nAccounts + 1} \X AccountNames ELSE {}

AccountsYield ==
  /\ pc = "accounts"
  /\ calls' = Pull("list_accounts")
  /\ nRepRecords' = nRepRecords + 1
  /\ UNCHANGED nDirRecords
  /\ \E a \in AccountChoices : account' = a
  /\ nAccounts' = nAccounts + 1
  /\ psYielded' = <<>>
  /\ pc' = "permsets"
  /\ UNCHANGED <<profile, err, idc, instCalls, idcUsed, dirVars, outVars,
                 permission_set, perm_info, cacheVars>>

\* the accounts listing ends: the with block closes the file, main returns
AccountsEnd ==
  /\ pc = "accounts"
  /\ calls' = Pull("list_accounts")
  /\ pc' = "done"
  /\ UNCHANGED <<profile, err, idc, instCalls, idcUsed, nRecords, dirVars,
                 outVars, walkVars, cacheVars>>

AccountsRaise ==
  /\ pc = "accounts"
  /\ MayRaise
  /\ calls' = Pull("list_accounts")
  /\ Raise("APIError")
  /\ UNCHANGED <<profile, idc, instCalls, idcUsed, nRecords, dirVars, outVars,
                 walkVars, cacheVars>>

\* The permission sets list_permission_sets_provisioned_to_account can yield
\* next: an arn not yet yielded for this account.  In the manyPermissionSets
\* profile the first account holds ManyArns, listed in ascending order, and
\* every later account holds permission set 1 alone.
PermissionSetChoices ==
  IF profile = "general"
  THEN IF nRepRecords < MaxReportRecords THEN PermissionSetArns \ Range(psYielded) ELSE {}
  ELSE IF nAccounts = 1
       THEN {Len(psYielded) + 1} \cap ManyArns
       ELSE {1} \ Range(psYielded)

\* for permission_set in generate_permission_sets_for_account(account_id)
PermissionSetsYield ==
  /\ pc = "permsets"
  /\ UseIdentityCenter
  /\ calls' = Pull("list_permission_sets")
  /\ nRepRecords' = nRepRecords + 1
  /\ UNCHANGED nDirRecords
  /\ \E arn \in PermissionSetChoices :
       /\ permission_set' = arn
       /\ psYielded' = Append(psYielded, arn)
  /\ pc' = "describe"
  /\ UNCHANGED <<profile, err, dirVars, outVars, account, nAccounts, perm_info,
                 cacheVars>>

PermissionSetsEnd ==
  /\ pc = "permsets"
  /\ UseIdentityCenter
  /\ calls' = Pull("list_permission_sets")
  /\ pc' = "accounts"
  /\ UNCHANGED <<profile, err, nRecords, dirVars, outVars, walkVars, cacheVars>>

PermissionSetsRaise ==
  /\ pc = "permsets"
  /\ MayRaise
  /\ UseIdentityCenter
  /\ calls' = Pull("list_permission_sets")
  /\ Raise("APIError")
  /\ UNCHANGED <<profile, nRecords, dirVars, outVars, walkVars, cacheVars>>

\* --------------------------------------------- describe_permission_set

\* functools.lru_cache: the cache is a list of (key, result), least recently
\* used first.
CacheKeys(cache) == {cache[i][1] : i \in DOMAIN cache}

CacheIndex(cache, key) == CHOOSE i \in DOMAIN cache : cache[i][1] = key

RemoveAt(s, i) == SubSeq(s, 1, i - 1) \o SubSeq(s, i + 1, Len(s))

\* a hit moves the entry to the most recently used end
LruTouch(cache, key) ==
  LET i == CacheIndex(cache, key)
  IN  Append(RemoveAt(cache, i), cache[i])

\* a miss stores the result; a full cache (maxsize entries) drops its least
\* recently used entry
LruStore(cache, key, result) ==
  IF Len(cache) >= LruMaxSize
  THEN Append(Tail(cache), <<key, result>>)
  ELSE Append(cache, <<key, result>>)

\* what the describe_permission_set API answers: Name, optional Description
PermInfoChoices ==
  IF profile = "general"
  THEN [Name : PermissionSetNames]
       \cup [Name : PermissionSetNames, Description : PermissionSetDescriptions]
  ELSE [Name : PermissionSetNames]

\* perm_info = describe_permission_set(permission_set)
DescribePermissionSet ==
  /\ pc = "describe"
  /\ IF permission_set \in CacheKeys(descCache)
     THEN /\ perm_info' = descCache[CacheIndex(descCache, permission_set)][2]
          /\ descCache' = LruTouch(descCache, permission_set)
          /\ UNCHANGED <<idc, instCalls, idcUsed, described>>
     ELSE /\ UseIdentityCenter
          /\ described' = Append(described, permission_set)
          /\ \E info \in PermInfoChoices :
               /\ perm_info' = info
               /\ descCache' = LruStore(descCache, permission_set, info)
  /\ pc' = "assignments"
  /\ UNCHANGED <<profile, err, calls, nRecords, dirVars, outVars, account,
                 nAccounts, psYielded, permission_set>>

\* the describe call raises: only a miss calls the API, and lru_cache stores
\* nothing for a call that raised
DescribeRaise ==
  /\ pc = "describe"
  /\ MayRaise
  /\ permission_set \notin CacheKeys(descCache)
  /\ UseIdentityCenter
  /\ described' = Append(described, permission_set)
  /\ Raise("APIError")
  /\ UNCHANGED <<profile, calls, nRecords, dirVars, outVars, walkVars, descCache>>

\* ------------------------------------------------------- row emitter

FieldNames == {"ACCOUNT_ID", "ACCOUNT_NAME", "PERM_ARN", "PERMISSION", "PERM_DESC",
               "PRINCIPAL_TYPE", "GROUP", "GROUP_DESC", "USER_ID", "USER_NAME"}

\* csv.DictWriter.writerow: a field the row dict lacks is written as restval ""
WriteRow(row) ==
  [f \in FieldNames |-> IF f \in DOMAIN row THEN row[f] ELSE Empty]

\* the USER row carrying the raw principal id in USER_ID
UserRowsRawId(principal_type, principal_id) ==
  IF principal_type = "USER"
  THEN <<WriteRow([ACCOUNT_ID |-> account[1],
                   ACCOUNT_NAME |-> account[2],
                   PERM_ARN |-> permission_set,
                   PERMISSION |-> perm_info.Name,
                   PERM_DESC |-> GetDescription(perm_info),
                   PRINCIPAL_TYPE |-> principal_type,
                   USER_ID |-> principal_id,
                   USER_NAME |-> user_map[principal_id][2]])>>
  ELSE <<>>

\* a row also written for a principal type that is neither USER nor GROUP
UserRowsOtherTypes(principal_type, principal_id) ==
  IF principal_type = "USER"
  THEN <<WriteRow([ACCOUNT_ID |-> account[1],
                   ACCOUNT_NAME |-> account[2],
                   PERM_ARN |-> permission_set,
                   PERMISSION |-> perm_info.Name,
                   PERM_DESC |-> GetDescription(perm_info),
                   PRINCIPAL_TYPE |-> principal_type,
                   USER_ID |-> user_map[principal_id][1],
                   USER_NAME |-> user_map[principal_id][2]])>>
  ELSE IF principal_type = "GROUP"
  THEN <<>>
  ELSE <<WriteRow([ACCOUNT_ID |-> account[1],
                   ACCOUNT_NAME |-> account[2],
                   PERM_ARN |-> permission_set,
                   PERMISSION |-> perm_info.Name,
                   PERM_DESC |-> GetDescription(perm_info),
                   PRINCIPAL_TYPE |-> principal_type])>>

\* if principal_type == "USER": the row dict of lines 58-67
UserRows(principal_type, principal_id) ==
  IF principal_type = "USER"
  THEN <<WriteRow([ACCOUNT_ID |-> account[1],
                   ACCOUNT_NAME |-> account[2],
                   PERM_ARN |-> permission_set,
                   PERMISSION |-> perm_info.Name,
                   PERM_DESC |-> GetDescription(perm_info),
                   PRINCIPAL_TYPE |-> principal_type,
                   USER_ID |-> user_map[principal_id][1],
                   USER_NAME |-> user_map[principal_id][2]])>>
  ELSE <<>>

\* writer.writerow(row) placed after the member loop: the last member only
GroupRowsLastMemberOnly(principal_type, principal_id) ==
  IF principal_type = "GROUP" /\ group_map[principal_id][3] # <<>>
  THEN LET mem == group_map[principal_id][3]
       IN  <<WriteRow([ACCOUNT_ID |-> account[1],
                       ACCOUNT_NAME |-> account[2],
                       PERM_ARN |-> permission_set,
                       PERMISSION |-> perm_info.Name,
                       PERM_DESC |-> GetDescription(perm_info),
                       PRINCIPAL_TYPE |-> principal_type,
                       GROUP |-> group_map[principal_id][1],
                       GROUP_DESC |-> group_map[principal_id][2],
                       USER_ID |-> mem[Len(mem)][1],
                       USER_NAME |-> mem[Len(mem)][2]])>>
  ELSE <<>>

\* if principal_type == "GROUP": one row dict per member, in members' order
GroupRows(principal_type, principal_id) ==
  IF principal_type = "GROUP"
  THEN LET group_name == group_map[principal_id][1]
           group_desc == group_map[principal_id][2]
           mem == group_map[principal_id][3]
       IN  [i \in 1..Len(mem) |->
              WriteRow([ACCOUNT_ID |-> account[1],
                        ACCOUNT_NAME |-> account[2],
                        PERM_ARN |-> permission_set,
                        PERMISSION |-> perm_info.Name,
                        PERM_DESC |-> GetDescription(perm_info),
                        PRINCIPAL_TYPE |-> principal_type,
                        GROUP |-> group_name,
                        GROUP_DESC |-> group_desc,
                        USER_ID |-> mem[i][1],
                        USER_NAME |-> mem[i][2]])]
  ELSE <<>>

\* user_map[principal_id] or group_map[principal_id] raises KeyError
LookupFails(principal_type, principal_id) ==
  \/ principal_type = "USER" /\ principal_id \notin DOMAIN user_map
  \/ principal_type = "GROUP" /\ principal_id \notin DOMAIN group_map

\* the lookups wrapped in try/except KeyError: continue
EmitAssignmentSkipUnknown(principal_type, principal_id) ==
  LET new == IF LookupFails(principal_type, principal_id)
             THEN <<>>
             ELSE UserRows(principal_type, principal_id)
                  \o GroupRows(principal_type, principal_id)
  IN  /\ rows' = rows \o new
      /\ rowSrc' = rowSrc \o [i \in 1..Len(new) |-> Len(asgLog) + 1]
      /\ UNCHANGED <<pc, err>>

\* the body of the assignment loop, lines 54-84
EmitAssignment(principal_type, principal_id) ==
  IF LookupFails(principal_type, principal_id)
  THEN /\ Raise("KeyError")
       /\ UNCHANGED <<rows, rowSrc>>
  ELSE LET new == UserRows(principal_type, principal_id)
                  \o GroupRows(principal_type, principal_id)
       IN  /\ rows' = rows \o new
           /\ rowSrc' = rowSrc \o [i \in 1..Len(new) |-> Len(asgLog) + 1]
           /\ UNCHANGED <<pc, err>>

\* the assignments list_account_assignments can yield
AssignmentChoices ==
  [PrincipalType : {"USER"}, PrincipalId : UserIds]
  \cup [PrincipalType : {"GROUP"}, PrincipalId : GroupIds]
  \cup [PrincipalType : {"OTHER"}, PrincipalId : {1}]

\* for assignment in generate_account_assignments(account_id, permission_set)
AssignmentsYield ==
  /\ pc = "assignments"
  /\ MayYieldRep
  /\ UseIdentityCenter
  /\ calls' = Pull("list_account_assignments")
  /\ nRepRecords' = nRepRecords + 1
  /\ UNCHANGED nDirRecords
  /\ \E assignment \in AssignmentChoices :
       /\ asgLog' = Append(asgLog, [AccountId |-> account[1],
                                    PermissionSetArn |-> permission_set,
                                    PrincipalType |-> assignment.PrincipalType,
                                    PrincipalId |-> assignment.PrincipalId])
       /\ EmitAssignment(assignment.PrincipalType, assignment.PrincipalId)
  /\ UNCHANGED <<profile, dirVars, header, walkVars, cacheVars>>

AssignmentsEnd ==
  /\ pc = "assignments"
  /\ UseIdentityCenter
  /\ calls' = Pull("list_account_assignments")
  /\ pc' = "permsets"
  /\ UNCHANGED <<profile, err, nRecords, dirVars, outVars, walkVars, cacheVars>>

AssignmentsRaise ==
  /\ pc = "assignments"
  /\ MayRaise
  /\ UseIdentityCenter
  /\ calls' = Pull("list_account_assignments")
  /\ Raise("APIError")
  /\ UNCHANGED <<profile, nRecords, dirVars, outVars, walkVars, cacheVars>>

Next ==
  \/ UsersYield
  \/ UsersEnd
  \/ UsersRaise
  \/ GroupsYield
  \/ GroupsEnd
  \/ GroupsRaise
  \/ MembersYield
  \/ MembersEnd
  \/ MembersRaise
  \/ OpenFile
  \/ AccountsYield
  \/ AccountsEnd
  \/ AccountsRaise
  \/ PermissionSetsYield
  \/ PermissionSetsEnd
  \/ PermissionSetsRaise
  \/ DescribePermissionSet
  \/ DescribeRaise
  \/ AssignmentsYield
  \/ AssignmentsEnd
  \/ AssignmentsRaise

Spec == Init /\ [][Next]_vars

\* ------------------------------------------------------------ properties

\* the data rows written for the i-th assignment
RowsOf(i) == {k \in DOMAIN rows : rowSrc[k] = i}

SharedFields == {"ACCOUNT_ID", "ACCOUNT_NAME", "PERM_ARN", "PERMISSION", "PERM_DESC",
                 "GROUP", "GROUP_DESC"}

\* the i-th assignment names a principal main() cannot resolve
Unresolvable(i) ==
  LookupFails(asgLog[i].PrincipalType, asgLog[i].PrincipalId)

\* some membership listing yielded a user id that user_map does not hold
UnknownMemberListed ==
  \E g \in DOMAIN listed : \E i \in DOMAIN listed[g] :
    listed[g][i] \notin DOMAIN user_map

\* C1: a GROUP assignment to a loaded group whose membership listing yielded
\* the user ids M produced exactly |M| rows, one per member, that agree on
\* every column except USER_ID/USER_NAME (no rows for a group without members).
C1_GroupFanOut ==
  \A i \in DOMAIN asgLog :
    (asgLog[i].PrincipalType = "GROUP" /\ asgLog[i].PrincipalId \in DOMAIN group_map) =>
      LET M == Range(listed[asgLog[i].PrincipalId])
      IN  /\ Cardinality(RowsOf(i)) = Cardinality(M)
          /\ {<<rows[k].USER_ID, rows[k].USER_NAME>> : k \in RowsOf(i)}
               = {user_map[u] : u \in M}
          /\ \A k, l \in RowsOf(i) :
               /\ \A f \in SharedFields : rows[k][f] = rows[l][f]
               /\ rows[k].PRINCIPAL_TYPE = "GROUP"
               /\ rows[k].ACCOUNT_ID = asgLog[i].AccountId
               /\ rows[k].PERM_ARN = asgLog[i].PermissionSetArn
               /\ rows[k].GROUP = group_map[asgLog[i].PrincipalId][1]
               /\ rows[k].GROUP_DESC = group_map[asgLog[i].PrincipalId][2]
               /\ (k # l => <<rows[k].USER_ID, rows[k].USER_NAME>>
                              # <<rows[l].USER_ID, rows[l].USER_NAME>>)

\* a two-member group has been assigned and its rows are written
C1_Witness ==
  \E i \in DOMAIN asgLog :
    /\ asgLog[i].PrincipalType = "GROUP"
    /\ asgLog[i].PrincipalId \in DOMAIN group_map
    /\ Len(listed[asgLog[i].PrincipalId]) = 2
    /\ Cardinality(RowsOf(i)) = 2

\* C2: a USER assignment whose principal id is in user_map produced exactly
\* one row, carrying the mapped username and display name in USER_ID/USER_NAME
\* and empty GROUP and GROUP_DESC columns.
C2_UserRow ==
  \A i \in DOMAIN asgLog :
    (asgLog[i].PrincipalType = "USER" /\ asgLog[i].PrincipalId \in DOMAIN user_map) =>
      /\ Cardinality(RowsOf(i)) = 1
      /\ \A k \in RowsOf(i) :
           /\ rows[k].USER_ID = user_map[asgLog[i].PrincipalId][1]
           /\ rows[k].USER_NAME = user_map[asgLog[i].PrincipalId][2]
           /\ rows[k].GROUP = Empty
           /\ rows[k].GROUP_DESC = Empty
           /\ rows[k].PRINCIPAL_TYPE = "USER"

\* a user whose username differs from its id has been assigned directly
C2_Witness ==
  \E i \in DOMAIN asgLog :
    /\ asgLog[i].PrincipalType = "USER"
    /\ asgLog[i].PrincipalId \in DOMAIN user_map
    /\ user_map[asgLog[i].PrincipalId][1] # asgLog[i].PrincipalId
    /\ RowsOf(i) # {}

\* C3: the describe_permission_set API is called at most once per permission
\* set arn over a run, however many arns are visited.
C3_DescribeAtMostOncePerArn ==
  \A i, j \in DOMAIN described : described[i] = described[j] => i = j

\* C4: a membership listing that yields a user id absent from user_map ends
\* the run with a KeyError before the file is opened: no row is written and
\* the load does not go on without the member.
C4_UnknownMemberAborts ==
  UnknownMemberListed =>
    /\ pc = "error"
    /\ err = "KeyError"
    /\ ~header
    /\ rows = <<>>

\* an unknown member was listed after a known one
C4_Witness ==
  /\ UnknownMemberListed
  /\ members # <<>>
  /\ pc = "error"

\* C5: the first failing call or lookup ends the run: an unresolvable
\* principal or member is the last thing processed and leaves the run in the
\* error state, the failing step writes no row, and no step follows an error
\* (no retry, no further call, no further row; the rows written stay).
C5_AbortOnFirstError ==
  /\ [](/\ (pc = "error") = (err # "none")
        /\ UnknownMemberListed => pc = "error"
        /\ \A i \in DOMAIN asgLog :
             Unresolvable(i) => pc = "error" /\ err = "KeyError" /\ i = Len(asgLog))
  /\ [][/\ err = "none"
        /\ err' # "none" => rows' = rows /\ header' = header]_vars

\* a run failed after it had written rows
C5_Witness ==
  /\ pc = "error"
  /\ rows # <<>>
  /\ \E i \in DOMAIN asgLog : Unresolvable(i)

\* C6: when the accounts listing ends without having yielded an account, the
\* run is complete, the file holds the header and no data row, and no
\* permission-set, describe or assignment call was made.
C6_ZeroAccounts ==
  (calls["list_accounts"] > 0 /\ nAccounts = 0 /\ err = "none") =>
    /\ pc = "done"
    /\ header
    /\ rows = <<>>
    /\ calls["list_permission_sets"] = 0
    /\ calls["list_account_assignments"] = 0
    /\ described = <<>>

\* a run over a loaded directory and an organisation without accounts
C6_Witness ==
  /\ pc = "done"
  /\ nAccounts = 0
  /\ group_map # <<>>

\* C7: list_instances is called at most once in a run, and every API call that
\* takes the identity center is given the pair that call answered.
C7_IdentityCenterOnce ==
  /\ instCalls <= 1
  /\ Cardinality(idcUsed) <= 1
  /\ idcUsed \subseteq Range(idc)

\* every kind of caller has used the identity center
C7_Witness ==
  /\ instCalls = 1
  /\ calls["list_group_memberships"] > 0
  /\ calls["list_account_assignments"] > 0
  /\ described # <<>>

ReportStarted ==
  \/ header
  \/ calls["list_accounts"] > 0
  \/ calls["list_permission_sets"] > 0
  \/ calls["list_account_assignments"] > 0
  \/ described # <<>>

DirectoryDrained ==
  /\ <<"list_users", 0>> \in drained
  /\ <<"list_groups", 0>> \in drained
  /\ \A g \in DOMAIN listed : <<"list_group_memberships", g>> \in drained

DirectoryCalls ==
  <<calls["list_users"], calls["list_groups"], calls["list_group_memberships"]>>

\* C9: once the file is open or any account, permission-set, describe or
\* assignment call has been made, the users listing, the groups listing and
\* every group's membership listing have been read to their end, and no
\* identity-store listing is called again.
C9_DirectoryLoadedFirst ==
  /\ [](ReportStarted => DirectoryDrained)
  /\ [][ReportStarted' => DirectoryCalls' = DirectoryCalls]_vars

\* assignments are being listed over a directory with a group in it
C9_Witness ==
  /\ calls["list_account_assignments"] > 0
  /\ group_map # <<>>
  /\ user_map # <<>>

\* C10: an assignment whose principal type is neither USER nor GROUP writes no
\* row and raises nothing, so every row's PRINCIPAL_TYPE is USER or GROUP.
C10_OtherTypesSkipped ==
  /\ \A k \in DOMAIN rows : rows[k].PRINCIPAL_TYPE \in {"USER", "GROUP"}
  /\ \A i \in DOMAIN asgLog :
       asgLog[i].PrincipalType \notin {"USER", "GROUP"} =>
         /\ RowsOf(i) = {}
         /\ i = Len(asgLog) => err # "KeyError"

\* such an assignment was followed by one that wrote a row
C10_Witness ==
  \E i \in DOMAIN asgLog :
    /\ asgLog[i].PrincipalType = "OTHER"
    /\ \E j \in DOMAIN asgLog : j > i /\ RowsOf(j) # {}

====
